---- MODULE Spec2Model ----
(***************************************************************************)
(* State-machine model of the TypeGPU demos: the snow-dome physics         *)
(* integrator (shaders/physics.ts, updateSnowflakesFn), its render loop    *)
(* (snowdome/index.ts) and the two particle-system demos.                  *)
(*                                                                         *)
(* Numbers.  The shaders compute in f32.  The model computes in fixed      *)
(* point: a quantity q is held as the integer q * Scale (Scale = 1000,     *)
(* so lengths are in millimetres of world unit, times in milliseconds,     *)
(* angles in milliradians).  Products and quotients truncate toward zero,  *)
(* square roots round down.  TLC's integers are 32 bits wide, so products  *)
(* are arranged to stay below 2^31.                                        *)
(***************************************************************************)
EXTENDS Integers, Sequences, FiniteSets, TLC

\* ------------------------------------------------------------------------
\* Fixed-point arithmetic (the f32 operators of the shaders)
\* ------------------------------------------------------------------------

\* One world unit / one second / one radian, in model units.
Scale == 10 * 10 * 10

Abs(a) == IF a < 0 THEN -a ELSE a

\* No minimum taken: the first argument.
MinFirst(a, b) == a

Min(a, b) == IF a < b THEN a ELSE b

\* d.i32(a / b): the quotient truncated toward zero (b > 0).
TruncDiv(a, b) == IF a >= 0 THEN a \div b ELSE -((-a) \div b)

\* a * b of two fixed-point numbers.
Mul(a, b) == TruncDiv(a * b, Scale)

\* a / b of two fixed-point numbers (b > 0).
Div(a, b) == TruncDiv(a * Scale, b)

\* x - f32(i32(x)): the fractional part as the shaders compute it, by
\* truncation toward zero (so it is negative for negative x).
FracTrunc(x, unit) == x - TruncDiv(x, unit) * unit

RECURSIVE ISqrtB(_, _, _)
ISqrtB(x, lo, hi) ==
  IF lo >= hi THEN lo
  ELSE LET mid == (lo + hi + 1) \div 2
       IN  IF mid * mid <= x THEN ISqrtB(x, mid, hi) ELSE ISqrtB(x, lo, mid - 1)

\* floor(sqrt(x)) for 0 <= x < 2^31.
ISqrt(x) == IF x <= 0 THEN 0 ELSE ISqrtB(x, 0, 46340)

\* sqrt(a*a + b*b + c*c) of three fixed-point numbers.
Length3(a, b, c) == ISqrt(a * a + b * b + c * c)

\* std sin, for an angle in milliradians, by range reduction to [0, pi] and
\* Bhaskara's rational approximation 16x(pi-x) / (5pi^2 - 4x(pi-x)); the
\* result is in [-Scale, Scale].
SinHalf(x) ==
  LET q == (x * (3142 - x)) \div 100
  IN  (16 * q * Scale) \div (493608 - 4 * q)

sin(x) ==
  LET r == x % 6284
  IN  IF r <= 3142 THEN SinHalf(r) ELSE -SinHalf(r - 3142)

cos(x) == sin(x + 1571)

\* ------------------------------------------------------------------------
\* CONFIG (snowdome/config.ts), in model units
\* ------------------------------------------------------------------------

DOME_RADIUS == 700

DOME_CENTER_Y == 350

FLOOR_Y == -150

GRAVITY == 150

DRAG_COEFFICIENT == 2000

TURBULENCE == 400

RESTITUTION == 100

\* The population and the workgroup size are scaled down (3000 and 64 in
\* config.ts) so that a dispatch has a surplus invocation and stays small.
SNOWFLAKE_COUNT == 3

WORKGROUP_SIZE == 2

\* ------------------------------------------------------------------------
\* shaders/common.ts
\* ------------------------------------------------------------------------

\* One hash lane of noise3DFn: the argument reduced modulo 2 pi by
\* truncation, squared, multiplied by 43758.5453, fractional part kept.
NoiseLane(px) ==
  LET sinPx == px - TruncDiv(px, 6283) * 6283
      sq    == (sinPx * sinPx) \div Scale
      h     == sq * 43758 + (sq * 5453) \div 10000
  IN  FracTrunc(h, Scale)

noise3DFn(p) ==
  LET px == TruncDiv(p[1] * 1271 + p[2] * 3117 + p[3] * 747, 10)
      py == TruncDiv(p[1] * 2695 + p[2] * 1833 + p[3] * 2461, 10)
      pz == TruncDiv(p[1] * 1135 + p[2] * 2719 + p[3] * 1246, 10)
  IN  Div(NoiseLane(px) + NoiseLane(py) + NoiseLane(pz), 1500) - Scale

\* ------------------------------------------------------------------------
\* shaders/physics.ts: updateSnowflakesFn, stage by stage
\* ------------------------------------------------------------------------

\* The drag acceleration on one axis (quadratic in the speed, only above
\* the 0.001 epsilon).
Drag(vel, p) ==
  LET speed == Length3(vel[1], vel[2], vel[3])
  IN  IF speed > 1
      THEN LET dragCoeff == Mul(p.dragCoeff, speed)
           IN  << Mul(0 - vel[1], dragCoeff),
                  Mul(0 - vel[2], dragCoeff),
                  Mul(0 - vel[3], dragCoeff) >>
      ELSE << 0, 0, 0 >>

\* The turbulence acceleration: the noise sampled at the particle's place
\* and the time, turned into one oscillation per axis.
Turbulence(s, p) ==
  LET noiseInput == << s.position[1] * 2 + Mul(p.time, 500),
                       s.position[2] * 2 + Mul(p.time, 300),
                       s.position[3] * 2 + Mul(p.time, 400) >>
      noiseVal == noise3DFn(noiseInput)
      a        == Mul(noiseVal, 6280)
  IN  << Mul(sin(a + p.time + s.phase), p.turbulence),
         Mul(Mul(cos(Mul(a, 700) + Mul(p.time, 800)), p.turbulence), 300),
         Mul(sin(Mul(a, 1300) + Mul(p.time, 600) + s.phase), p.turbulence) >>

\* Velocity update, then position update with the new velocity.
Integrate(s, p) ==
  LET drag == Drag(s.velocity, p)
      turb == Turbulence(s, p)
      dt   == p.deltaTime
      velX == s.velocity[1] + Mul(drag[1] + p.shakeAccelX + turb[1], dt)
      velY == s.velocity[2] + Mul((0 - p.gravity) + drag[2] + p.shakeAccelY + turb[2], dt)
      velZ == s.velocity[3] + Mul(drag[3] + p.shakeAccelZ + turb[3], dt)
  IN  [pos |-> << s.position[1] + Mul(velX, dt),
                  s.position[2] + Mul(velY, dt),
                  s.position[3] + Mul(velZ, dt) >>,
       vel |-> << velX, velY, velZ >>]

MaxRadius(p) == Mul(p.domeRadius, 950)

\* Distance of a position from the dome centre.
DomeDist(pos, p) == Length3(pos[1], pos[2] - p.domeCenterY, pos[3])

\* The unit normal at a position outside the collision sphere.
DomeNormal(pos, p) ==
  LET dist == DomeDist(pos, p)
  IN  << Div(pos[1], dist), Div(pos[2] - p.domeCenterY, dist), Div(pos[3], dist) >>

Dot3(a, b) == Mul(a[1], b[1]) + Mul(a[2], b[2]) + Mul(a[3], b[3])

\* The reflection without the damping.
ReflectUndamped(vel, n, p) ==
  LET velDotN == Dot3(vel, n)
  IN  IF velDotN > 0
      THEN << vel[1] - Mul(Mul(2 * Scale, velDotN), n[1]),
              vel[2] - Mul(Mul(2 * Scale, velDotN), n[2]),
              vel[3] - Mul(Mul(2 * Scale, velDotN), n[3]) >>
      ELSE vel

\* The velocity after the reflection on the dome with normal n.
Reflect(vel, n, p) ==
  LET velDotN == Dot3(vel, n)
  IN  IF velDotN > 0
      THEN << Mul(vel[1] - Mul(Mul(2 * Scale, velDotN), n[1]), p.restitution),
              Mul(vel[2] - Mul(Mul(2 * Scale, velDotN), n[2]), p.restitution),
              Mul(vel[3] - Mul(Mul(2 * Scale, velDotN), n[3]), p.restitution) >>
      ELSE vel

\* The spherical boundary without the clamp of the position: reflect only.
DomeCollideNoClamp(b, p) ==
  IF DomeDist(b.pos, p) > MaxRadius(p)
  THEN [pos |-> b.pos, vel |-> Reflect(b.vel, DomeNormal(b.pos, p), p)]
  ELSE b

\* Spherical boundary: clamp onto the 0.95 R sphere and reflect.
DomeCollide(b, p) ==
  IF DomeDist(b.pos, p) > MaxRadius(p)
  THEN LET n == DomeNormal(b.pos, p)
       IN  [pos |-> << Mul(n[1], MaxRadius(p)),
                       Mul(n[2], MaxRadius(p)) + p.domeCenterY,
                       Mul(n[3], MaxRadius(p)) >>,
            vel |-> Reflect(b.vel, n, p)]
  ELSE b

\* The floor without the clamp of the height: bounce and friction only.
FloorCollideNoClamp(b, p) ==
  IF b.pos[2] < p.floorY
  THEN [pos |-> b.pos,
        vel |-> << Mul(b.vel[1], 900),
                   IF b.vel[2] < 0
                   THEN Mul(Mul(Abs(b.vel[2]), p.restitution), 500)
                   ELSE b.vel[2],
                   Mul(b.vel[3], 900) >>,
        onFloor |-> TRUE]
  ELSE [pos |-> b.pos, vel |-> b.vel, onFloor |-> FALSE]

\* The floor without friction, and with the full bounce.
FloorCollideNoFriction(b, p) ==
  IF b.pos[2] < p.floorY
  THEN [pos |-> << b.pos[1], p.floorY, b.pos[3] >>,
        vel |-> << b.vel[1],
                   IF b.vel[2] < 0
                   THEN Mul(Abs(b.vel[2]), p.restitution)
                   ELSE b.vel[2],
                   b.vel[3] >>,
        onFloor |-> TRUE]
  ELSE [pos |-> b.pos, vel |-> b.vel, onFloor |-> FALSE]

\* The floor taken to act on a snowflake lying exactly on it as well.
FloorCollideAtFloor(b, p) ==
  IF b.pos[2] <= p.floorY
  THEN [pos |-> << b.pos[1], p.floorY, b.pos[3] >>,
        vel |-> << Mul(b.vel[1], 900),
                   IF b.vel[2] < 0
                   THEN Mul(Mul(Abs(b.vel[2]), p.restitution), 500)
                   ELSE b.vel[2],
                   Mul(b.vel[3], 900) >>,
        onFloor |-> TRUE]
  ELSE [pos |-> b.pos, vel |-> b.vel, onFloor |-> FALSE]

\* Floor: clamp to floorY, weak bounce, friction.
FloorCollide(b, p) ==
  IF b.pos[2] < p.floorY
  THEN [pos |-> << b.pos[1], p.floorY, b.pos[3] >>,
        vel |-> << Mul(b.vel[1], 900),
                   IF b.vel[2] < 0
                   THEN Mul(Mul(Abs(b.vel[2]), p.restitution), 500)
                   ELSE b.vel[2],
                   Mul(b.vel[3], 900) >>,
        onFloor |-> TRUE]
  ELSE [pos |-> b.pos, vel |-> b.vel, onFloor |-> FALSE]

\* The pseudo-random respawn draw: frac(idx * 0.0001 + time * 10) < 0.05,
\* computed in units of 1/10000.
RespawnSelected(idx, p) == FracTrunc(idx + p.time * 100, 10000) < 500

\* frac(idx * a + time * b) for a, b given in millionths, as a fixed-point
\* number.
SeedFrac(idx, a, time, b) == FracTrunc(idx * a + time * b, 1000000) \div Scale

\* A respawn position without the safety margin of the radius and with
\* heights up to the top of the dome.
RespawnPositionWide(idx, p) ==
  LET theta     == Mul(SeedFrac(idx, 123400, p.time, 567), 6283)
      randR     == SeedFrac(idx, 567800, p.time, 123)
      sqrtR     == ISqrt(randR * Scale)
      randH     == SeedFrac(idx, 901200, p.time, 345)
      heightRatio == 500 + Mul(randH, 500)
      spawnY    == p.domeCenterY + Mul(p.domeRadius, heightRatio)
      r         == Mul(sqrtR, p.domeRadius)
  IN  << Mul(sin(theta), r), spawnY, Mul(cos(theta), r) >>

\* The respawn position: on a horizontal disc in the upper dome.
RespawnPosition(idx, p) ==
  LET theta     == Mul(SeedFrac(idx, 123400, p.time, 567), 6283)
      randR     == SeedFrac(idx, 567800, p.time, 123)
      sqrtR     == ISqrt(randR * Scale)
      randH     == SeedFrac(idx, 901200, p.time, 345)
      heightRatio == 500 + Mul(randH, 350)
      spawnY    == p.domeCenterY + Mul(p.domeRadius, heightRatio)
      relativeY == spawnY - p.domeCenterY
      maxRadiusAtHeight ==
        ISqrt((p.domeRadius * p.domeRadius * 9) \div 10 - relativeY * relativeY)
      safeRadius == Mul(maxRadiusAtHeight, 850)
      r         == Mul(sqrtR, safeRadius)
  IN  << Mul(sin(theta), r), spawnY, Mul(cos(theta), r) >>

\* The gate with a threshold of 0.2 for the speed.
SettledLoose(c) == c.onFloor /\ Length3(c.vel[1], c.vel[2], c.vel[3]) < 200

\* The gate without the floor: slower than 0.02, wherever.
SettledAnywhere(c) == Length3(c.vel[1], c.vel[2], c.vel[3]) < 20

\* The gate of the respawn: on the floor in this step and slower than 0.02.
Settled(c) == c.onFloor /\ Length3(c.vel[1], c.vel[2], c.vel[3]) < 20

\* Stochastic respawn of a settled particle.
Respawn(c, idx, p) ==
  IF Settled(c) /\ RespawnSelected(idx, p)
  THEN [pos |-> RespawnPosition(idx, p), vel |-> << 0, 0 - 10, 0 >>]
  ELSE [pos |-> c.pos, vel |-> c.vel]

\* The state after integration and both collisions, before the respawn.
Collided(s, p) == FloorCollide(DomeCollide(Integrate(s, p), p), p)

\* What one invocation computes for snowflake s with index idx.
SnowflakeStep(s, idx, p) == Respawn(Collided(s, p), idx, p)

\* A write-back that writes the phase and the rotation as well.
WriteBackAll(arr, idx, r) ==
  [arr EXCEPT ![idx].position = r.pos, ![idx].velocity = r.vel,
              ![idx].phase = r.vel[2], ![idx].rotation = r.pos[2]]

\* A write-back that adds the stepped record at the end of the array.
WriteBackAppend(arr, idx, r) ==
  [i \in DOMAIN arr \cup {Cardinality(DOMAIN arr)} |->
     IF i \in DOMAIN arr
     THEN arr[i]
     ELSE [arr[idx] EXCEPT !.position = r.pos, !.velocity = r.vel]]

\* The write-back: position and velocity of record idx, nothing else.
WriteBack(arr, idx, r) ==
  [arr EXCEPT ![idx].position = r.pos, ![idx].velocity = r.vel]

\* An invocation without the bounds check, its index wrapped into the array.
updateSnowflakesFnWrapping(arr, idx, p) ==
  WriteBack(arr, idx % p.snowflakeCount,
            SnowflakeStep(arr[idx % p.snowflakeCount], idx, p))

\* An invocation that takes the velocity from record 0 of the array.
updateSnowflakesFnShared(arr, idx, p) ==
  IF idx >= p.snowflakeCount
  THEN arr
  ELSE WriteBack(arr, idx,
                 SnowflakeStep([arr[idx] EXCEPT !.velocity = arr[0].velocity],
                               idx, p))

\* One invocation of the compute function with global id idx.
updateSnowflakesFn(arr, idx, p) ==
  IF idx >= p.snowflakeCount
  THEN arr
  ELSE WriteBack(arr, idx, SnowflakeStep(arr[idx], idx, p))

\* ------------------------------------------------------------------------
\* The particle-system demos: the fixed-count page and the tuner page
\* (ParticleSimulation).  Both share random() and the shape of the step.
\* ------------------------------------------------------------------------

\* a * b for a fixed-point a too large for Mul (|a * b| >= 2^31).
MulWide(a, b) ==
  IF a >= 0
  THEN (a \div Scale) * b + ((a % Scale) * b) \div Scale
  ELSE 0 - ((((0 - a) \div Scale) * b) + ((((0 - a) % Scale) * b) \div Scale))

\* A fractional part that keeps the sign of its argument (x - trunc(x)).
fractSigned(x) == x - TruncDiv(x, Scale) * Scale

\* fract(x) = x - floor(x), of a fixed-point number.
fract(x) == x % Scale

\* random(seed) = fract(sin(dot(seed, (12.9898, 78.233))) * 43758.5453)
random(seed) ==
  LET d == MulWide(seed[1], 12990) + MulWide(seed[2], 78233)
      s == sin(d)
  IN  fract(s * 43758 + TruncDiv(s * 5453, 10000))

Particle(pos, vel, life) == [position |-> pos, velocity |-> vel, life |-> life]

\* --- the fixed-count page ---

\* Scaled down (1000 on the page).
PARTICLE_COUNT == 3

\* The reset of an expired particle on the fixed-count page.
ResetParticle(idx, p) ==
  LET seedBase == idx * Scale + p.time * Scale
      r1 == random(<< seedBase, Mul(seedBase, 100) >>)
      r2 == random(<< Mul(seedBase, 200), Mul(seedBase, 300) >>)
      r3 == random(<< Mul(seedBase, 400), Mul(seedBase, 500) >>)
      r4 == random(<< Mul(seedBase, 600), Mul(seedBase, 700) >>)
      r5 == random(<< Mul(seedBase, 800), Mul(seedBase, 900) >>)
      r6 == random(<< Mul(seedBase, 1100), Mul(seedBase, 1200) >>)
  IN  Particle(<< r1 * 10 - 5 * Scale, r2 * 10 - 5 * Scale, r3 * 10 - 5 * Scale >>,
               << r4 - 500, r5 - 500, r6 - 500 >>,
               Scale)

\* The step of a live particle with the position moved by the velocity
\* the step started with.
AdvanceParticleOldVelocity(s, p) ==
  LET newVelocity == << s.velocity[1] + Mul(p.gravity[1], p.deltaTime),
                        s.velocity[2] + Mul(p.gravity[2], p.deltaTime),
                        s.velocity[3] + Mul(p.gravity[3], p.deltaTime) >>
      newPosition == << s.position[1] + Mul(s.velocity[1], p.deltaTime),
                        s.position[2] + Mul(s.velocity[2], p.deltaTime),
                        s.position[3] + Mul(s.velocity[3], p.deltaTime) >>
  IN  Particle(newPosition, newVelocity, s.life - p.deltaTime)

\* The step of a live particle on the fixed-count page.
AdvanceParticle(s, p) ==
  LET newVelocity == << s.velocity[1] + Mul(p.gravity[1], p.deltaTime),
                        s.velocity[2] + Mul(p.gravity[2], p.deltaTime),
                        s.velocity[3] + Mul(p.gravity[3], p.deltaTime) >>
      newPosition == << s.position[1] + Mul(newVelocity[1], p.deltaTime),
                        s.position[2] + Mul(newVelocity[2], p.deltaTime),
                        s.position[3] + Mul(newVelocity[3], p.deltaTime) >>
  IN  Particle(newPosition, newVelocity, s.life - p.deltaTime)

\* One invocation of the fixed-count page's updateParticlesFn.
updateParticlesFn(arr, idx, p) ==
  IF idx >= PARTICLE_COUNT
  THEN arr
  ELSE IF arr[idx].life <= 0
       THEN [arr EXCEPT ![idx] = ResetParticle(idx, p)]
       ELSE [arr EXCEPT ![idx] = AdvanceParticle(arr[idx], p)]

\* --- the tuner page ---

\* The reset of an expired particle in ParticleSimulation.
TunerReset(idx, p) ==
  LET idxF == idx * Scale
      phi  == 1618
      r1 == random(<< Mul(idxF, phi), MulWide(p.time, 17130) >>)
      r2 == random(<< Mul(idxF, phi) * 2, MulWide(p.time, 31710) >>)
      r3 == random(<< Mul(idxF, phi) * 3, MulWide(p.time, 47290) >>)
      r4 == random(<< Mul(idxF, phi) * 5, MulWide(p.time, 67830) >>)
      r5 == random(<< Mul(idxF, phi) * 7, MulWide(p.time, 89570) >>)
      r6 == random(<< Mul(idxF, phi) * 11, MulWide(p.time, 113190) >>)
      range == p.spawnRange
      vel   == p.initialVelocity
  IN  Particle(<< Mul(r1, range) * 2 - range, Mul(r2, range) * 2 - range,
                  Mul(r3, range) * 2 - range >>,
               << Mul(r4 - 500, vel) * 2, Mul(r5 - 500, vel) * 2,
                  Mul(r6 - 500, vel) * 2 >>,
               Scale)

\* The step of a live particle in ParticleSimulation with the life left
\* as it is.
TunerAdvanceNoDecay(s, p) ==
  LET dragFactor == Scale - Mul(p.drag, p.deltaTime)
      newVelocity == << Mul(s.velocity[1], dragFactor) + Mul(p.gravity[1], p.deltaTime),
                        Mul(s.velocity[2], dragFactor) + Mul(p.gravity[2], p.deltaTime),
                        Mul(s.velocity[3], dragFactor) + Mul(p.gravity[3], p.deltaTime) >>
      newPosition == << s.position[1] + Mul(newVelocity[1], p.deltaTime),
                        s.position[2] + Mul(newVelocity[2], p.deltaTime),
                        s.position[3] + Mul(newVelocity[3], p.deltaTime) >>
  IN  Particle(newPosition, newVelocity, s.life)

\* The step of a live particle in ParticleSimulation: drag, gravity,
\* position, life.
TunerAdvance(s, p) ==
  LET dragFactor == Scale - Mul(p.drag, p.deltaTime)
      newVelocity == << Mul(s.velocity[1], dragFactor) + Mul(p.gravity[1], p.deltaTime),
                        Mul(s.velocity[2], dragFactor) + Mul(p.gravity[2], p.deltaTime),
                        Mul(s.velocity[3], dragFactor) + Mul(p.gravity[3], p.deltaTime) >>
      newPosition == << s.position[1] + Mul(newVelocity[1], p.deltaTime),
                        s.position[2] + Mul(newVelocity[2], p.deltaTime),
                        s.position[3] + Mul(newVelocity[3], p.deltaTime) >>
  IN  Particle(newPosition, newVelocity, s.life - Mul(p.deltaTime, p.lifeDecay))

\* One invocation of ParticleSimulation's updateParticlesFn, compiled by
\* init(particleCount).
tunerUpdateParticlesFn(arr, idx, p, particleCount) ==
  IF idx >= particleCount
  THEN arr
  ELSE IF arr[idx].life <= 0
       THEN [arr EXCEPT ![idx] = TunerReset(idx, p)]
       ELSE [arr EXCEPT ![idx] = TunerAdvance(arr[idx], p)]

\* ------------------------------------------------------------------------
\* State
\* ------------------------------------------------------------------------

VARIABLES
  demo,        \* the page that is loaded: "snowdome", "particles" (the
               \* fixed-count page), "tuner" (ParticleSimulation), or "unit"
               \* for the snow-dome integrator driven with chosen inputs
  snowflakes,  \* snowdome: snowflakeBuffer, index 0 .. count-1
  simParams,   \* snowdome: simParamsBuffer, the uniform record
  particles,   \* particle pages: particleBuffer, index 0 .. count-1
  psParams,    \* particle pages: paramsBuffer, the uniform record
  uiParams,    \* tuner: the params object read from the UI
  simulation,  \* tuner: "null" until main() has built the simulation
  mainState,   \* tuner: main() "pending", "failed" (error shown) or "done"
  animationId, \* tuner: this.animationId (0 for null)
  currentParticleCount, \* tuner: this.currentParticleCount
  workgroupCount,       \* the workgroup count the frame callback dispatches
  rafQueue,    \* ids of the animation-frame callbacks requested, not yet run
  now,         \* performance.now(), in ms
  lastTime,    \* frame loop: time of the previous frame
  totalTime,   \* frame loop: the rolling time accumulator
  pending,     \* global invocation ids of the dispatch in flight that have
               \* not run yet
  frameStart,  \* history: the storage array as the dispatch in flight found it
  visits,      \* history: per index, invocations of this dispatch that
               \* processed it
  frames,      \* history: number of dispatches issued
  drawQueue,   \* the particle draws issued and not yet run, each with the
               \* frame that issued it and its instance count
  lastDraw     \* history: frame, instance count and array of the last
               \* particle draw that ran

vars == << demo, snowflakes, simParams, particles, psParams, uiParams,
           simulation, mainState, animationId, currentParticleCount, workgroupCount,
           rafQueue, now, lastTime, totalTime, pending, frameStart, visits,
           frames, drawQueue, lastDraw >>

snowVars == << snowflakes, simParams >>

particleVars == << particles, psParams >>

tunerVars == << uiParams, simulation, mainState, animationId,
               currentParticleCount >>

drawVars == << drawQueue, lastDraw >>

\* The queue has run what was submitted to it.  Commands run in the order
\* of their submission, so a handler's commands find the array as the
\* commands before them left it.
QueueIdle == pending = {} /\ drawQueue = {}

\* The particle draw a frame function issues after its dispatch.
DrawCommand(instances) == [frame |-> frames + 1, instances |-> instances]

\* The quotient rounded down.
WorkgroupCountFloor(count) == count \div WORKGROUP_SIZE

\* Math.ceil(count / WORKGROUP_SIZE)
WorkgroupCount(count) == (count + WORKGROUP_SIZE - 1) \div WORKGROUP_SIZE

\* dispatchWorkgroups(n): the global invocation ids the dispatch runs.
Invocations(n) == 0 .. (n * WORKGROUP_SIZE - 1)

\* The record render() writes to simParamsBuffer.
ConfigParams(time, deltaTime) ==
  [time |-> time, deltaTime |-> deltaTime,
   domeRadius |-> DOME_RADIUS, domeCenterY |-> DOME_CENTER_Y,
   floorY |-> FLOOR_Y, gravity |-> GRAVITY, dragCoeff |-> DRAG_COEFFICIENT,
   turbulence |-> TURBULENCE, restitution |-> RESTITUTION,
   shakeAccelX |-> 0, shakeAccelY |-> 0, shakeAccelZ |-> 0,
   snowflakeCount |-> SNOWFLAKE_COUNT]

Snowflake(pos, vel, size, phase, alpha, rotation) ==
  [position |-> pos, velocity |-> vel, size |-> size, phase |-> phase,
   alpha |-> alpha, rotation |-> rotation]

\* What generateInitialSnowflakes can return for one snowflake: within
\* 0.85 R of the dome centre, |vx|, |vz| <= 0.05, vy in
\* [-0.1 GRAVITY, -0.05 GRAVITY], size, phase, alpha, rotation in range.
InInitialRange(s) ==
  /\ Length3(s.position[1], s.position[2] - DOME_CENTER_Y, s.position[3])
       <= Mul(DOME_RADIUS, 850)
  /\ Abs(s.velocity[1]) <= 50 /\ Abs(s.velocity[3]) <= 50
  /\ s.velocity[2] >= 0 - Mul(GRAVITY, 100) /\ s.velocity[2] <= 0 - Mul(GRAVITY, 50)
  /\ s.size >= 8 /\ s.size <= 25
  /\ s.phase >= 0 /\ s.phase <= 6283
  /\ s.alpha >= 600 /\ s.alpha <= 1000
  /\ s.rotation >= 0 /\ s.rotation <= 6283

\* Draws of generateInitialSnowflakes the model starts from: at the bottom
\* of the 0.85 R ball (below the floor), at the centre, at the side, in the
\* upper half.
InitialDraws ==
  << Snowflake(<< 0, -245, 0 >>, << 20, -10, -30 >>, 8, 0, 600, 0),
     Snowflake(<< 0, 350, 0 >>, << 0, -15, 0 >>, 25, 3000, 1000, 1000),
     Snowflake(<< 595, 350, 0 >>, << 50, -8, 50 >>, 12, 6283, 800, 6283),
     Snowflake(<< 100, 800, -200 >>, << -50, -12, 10 >>, 20, 1571, 700, 2000),
     Snowflake(<< 10, -240, 5 >>, << 2, -8, 3 >>, 10, 4000, 900, 500) >>

\* The array generateInitialSnowflakes returns, for one sequence of draws.
generateInitialSnowflakes(seed) ==
  [i \in 0 .. (SNOWFLAKE_COUNT - 1) |->
     InitialDraws[((seed + i) % Len(InitialDraws)) + 1]]

\* Draws of Math.random() for one particle of the particle pages: three for
\* the position, three for the velocity, one for the life, each in [0, 1).
RandomDraws ==
  << << 0, 500, 999, 500, 0, 999, 0 >>,
     << 250, 750, 500, 100, 900, 500, 300 >>,
     << 999, 0, 0, 999, 999, 0, 999 >>,
     << 500, 500, 500, 500, 500, 500, 16 >> >>

\* initData of the fixed-count page.
initData(seed) ==
  [i \in 0 .. (PARTICLE_COUNT - 1) |->
     LET u == RandomDraws[((seed + i) % Len(RandomDraws)) + 1]
     IN  Particle(<< u[1] * 10 - 5 * Scale, u[2] * 10 - 5 * Scale,
                     u[3] * 10 - 5 * Scale >>,
                  << u[4] - 500, u[5] - 500, u[6] - 500 >>,
                  u[7])]

\* initData of ParticleSimulation.init(particleCount).
tunerInitData(seed, particleCount, ui) ==
  [i \in 0 .. (particleCount - 1) |->
     LET u == RandomDraws[((seed + i) % Len(RandomDraws)) + 1]
     IN  Particle(<< Mul(u[1], ui.spawnRange) * 2 - ui.spawnRange,
                     Mul(u[2], ui.spawnRange) * 2 - ui.spawnRange,
                     Mul(u[3], ui.spawnRange) * 2 - ui.spawnRange >>,
                  << Mul(Mul(u[4] - 500, ui.initialVelocity), 2 * Scale),
                     Mul(Mul(u[5] - 500, ui.initialVelocity), 2 * Scale),
                     Mul(Mul(u[6] - 500, ui.initialVelocity), 2 * Scale) >>,
                  u[7])]

\* The empty array: a buffer of a page that is not loaded.
NoArray == [i \in {} |-> 0]

\* Frames the model follows.
MaxFrames == 3

\* Wall-clock gaps between two frame callbacks, in ms: one display frame, a
\* resumed tab.  The first call of the frame function follows the
\* performance.now() that sets lastTime at once: gap 0.
FrameGaps == {16, 250}

\* The gap of this call of the frame function: 0 for the call from main()
\* (no callback is pending yet), positive for a callback.
GapAllowed(gap) ==
  \/ gap = 0 /\ frames = 0 /\ rafQueue = {}
  \/ gap > 0 /\ rafQueue # {}

\* requestAnimationFrame: the id of the new request.
NewRequest == frames + 1


\* Sequences of Math.random() draws the model starts the particle pages from.
Seeds == {0, 1}

\* paramsBuffer of the fixed-count page.
PageParams(time, deltaTime) ==
  [deltaTime |-> deltaTime, gravity |-> << 0, -9810, 0 >>, time |-> time]

\* DEFAULTS of the tuner page; the particle count is scaled down (20000 on
\* the page).
DEFAULT_PARTICLE_COUNT == 3

DEFAULTS ==
  [particleCount |-> DEFAULT_PARTICLE_COUNT, gravityX |-> 0, gravityY |-> -9810,
   drag |-> 0, lifeDecay |-> 1000, spawnRange |-> 5000, initialVelocity |-> 500]

\* Another setting of the tuner's sliders.
OtherSetting ==
  [particleCount |-> DEFAULT_PARTICLE_COUNT, gravityX |-> 1000, gravityY |-> -2000,
   drag |-> 500, lifeDecay |-> 2000, spawnRange |-> 2000, initialVelocity |-> 1000]

\* Values of the particle-count slider.
TunerCounts == {DEFAULT_PARTICLE_COUNT - 1, DEFAULT_PARTICLE_COUNT}

\* The record ParticleSimulation writes to paramsBuffer.
TunerParams(ui, time, deltaTime) ==
  [deltaTime |-> deltaTime, gravity |-> << ui.gravityX, ui.gravityY, 0 >>,
   time |-> time, drag |-> ui.drag, lifeDecay |-> ui.lifeDecay,
   spawnRange |-> ui.spawnRange, initialVelocity |-> ui.initialVelocity]

\* ------------------------------------------------------------------------
\* Initial states: one page is loaded
\* ------------------------------------------------------------------------

\* What every page starts with.
InitCommon ==
  /\ now = 0
  /\ lastTime = 0
  /\ totalTime = 0
  /\ rafQueue = {}
  /\ pending = {}
  /\ frames = 0
  /\ animationId = 0
  /\ uiParams = DEFAULTS
  /\ simulation = "null"
  /\ drawQueue = {}
  /\ lastDraw = [frame |-> 0, instances |-> 0, array |-> << >>]

\* snowdome/index.ts, main() up to the first call of render().
InitSnowdome ==
  /\ demo = "snowdome"
  /\ \E seed \in 0 .. (Len(InitialDraws) - 1) :
       snowflakes = generateInitialSnowflakes(seed)
  /\ \A i \in DOMAIN snowflakes : InInitialRange(snowflakes[i])
  /\ simParams = ConfigParams(0, 16)
  /\ particles = NoArray
  /\ psParams = PageParams(0, 16)
  /\ mainState = "done"
  /\ currentParticleCount = 0
  /\ workgroupCount = WorkgroupCount(SNOWFLAKE_COUNT)
  /\ frameStart = snowflakes
  /\ visits = [i \in DOMAIN snowflakes |-> 0]
  /\ InitCommon

\* The fixed-count page, main() up to the first call of animate().
InitParticles ==
  /\ demo = "particles"
  /\ \E seed \in Seeds : particles = initData(seed)
  /\ psParams = PageParams(0, 16)
  /\ snowflakes = NoArray
  /\ simParams = ConfigParams(0, 16)
  /\ mainState = "done"
  /\ currentParticleCount = 0
  /\ workgroupCount = WorkgroupCount(PARTICLE_COUNT)
  /\ frameStart = particles
  /\ visits = [i \in DOMAIN particles |-> 0]
  /\ InitCommon

\* The tuner page: the script has run, main() has not finished yet.
InitTuner ==
  /\ demo = "tuner"
  /\ particles = NoArray
  /\ psParams = TunerParams(DEFAULTS, 0, 16)
  /\ snowflakes = NoArray
  /\ simParams = ConfigParams(0, 16)
  /\ mainState = "pending"
  /\ currentParticleCount = 0
  /\ workgroupCount = 0
  /\ frameStart = NoArray
  /\ visits = NoArray
  /\ InitCommon

\* main() of the snow-dome page or of the fixed-count page has ended in its
\* capability check: navigator.gpu or the canvas context is missing.  The
\* snow-dome page throws (main().catch logs the Error), the fixed-count
\* page shows the message and returns; neither creates an array or calls
\* its frame function.
InitFailed ==
  /\ demo \in {"snowdome", "particles"}
  /\ mainState = "failed"
  /\ snowflakes = NoArray
  /\ simParams = ConfigParams(0, 16)
  /\ particles = NoArray
  /\ psParams = PageParams(0, 16)
  /\ currentParticleCount = 0
  /\ workgroupCount = 0
  /\ frameStart = NoArray
  /\ visits = NoArray
  /\ InitCommon

Init == InitSnowdome \/ InitParticles \/ InitTuner \/ InitFailed

\* ------------------------------------------------------------------------
\* The snow-dome page (snowdome/index.ts)
\* ------------------------------------------------------------------------

\* A frame function whose particle draw comes before its dispatch: the draw
\* reads the array of the frame before.
renderDrawFirst(gap) ==
  /\ demo = "snowdome"
  /\ mainState = "done"
  /\ QueueIdle
  /\ frames < MaxFrames
  /\ GapAllowed(gap)
  /\ LET deltaTime == Min((now + gap) - lastTime, 100)
     IN  /\ now' = now + gap
         /\ lastTime' = now + gap
         /\ totalTime' = totalTime + deltaTime
         /\ simParams' = ConfigParams(totalTime + deltaTime, deltaTime)
  /\ pending' = Invocations(workgroupCount)
  /\ drawQueue' = {}
  /\ lastDraw' = [frame |-> frames + 1, instances |-> SNOWFLAKE_COUNT,
                  array |-> snowflakes]
  /\ rafQueue' = {NewRequest}
  /\ frameStart' = snowflakes
  /\ visits' = [i \in DOMAIN snowflakes |-> 0]
  /\ frames' = frames + 1
  /\ UNCHANGED << demo, snowflakes, particleVars, tunerVars, workgroupCount >>

\* render(): the frame function.  It writes SimParams, issues the dispatch
\* and the draws and requests the next frame.  The queue runs a dispatch
\* after the one before it has finished, so the dispatch starts from a
\* quiet array.
render(gap) ==
  /\ demo = "snowdome"
  /\ mainState = "done"
  /\ QueueIdle
  /\ frames < MaxFrames
  /\ GapAllowed(gap)
  /\ LET deltaTime == Min((now + gap) - lastTime, 100)
     IN  /\ now' = now + gap
         /\ lastTime' = now + gap
         /\ totalTime' = totalTime + deltaTime
         /\ simParams' = ConfigParams(totalTime + deltaTime, deltaTime)
  /\ pending' = Invocations(workgroupCount)
  /\ drawQueue' = {DrawCommand(SNOWFLAKE_COUNT)}
  /\ rafQueue' = {NewRequest}
  /\ frameStart' = snowflakes
  /\ visits' = [i \in DOMAIN snowflakes |-> 0]
  /\ frames' = frames + 1
  /\ UNCHANGED << demo, snowflakes, particleVars, tunerVars, workgroupCount,
                  lastDraw >>

\* One invocation of updateSnowflakesFn, in any order among those pending.
InvokeSnowflake(idx) ==
  /\ demo \in {"snowdome", "unit"}
  /\ idx \in pending
  /\ pending' = pending \ {idx}
  /\ snowflakes' = updateSnowflakesFn(snowflakes, idx, simParams)
  /\ visits' = IF idx < simParams.snowflakeCount
               THEN [visits EXCEPT ![idx] = @ + 1]
               ELSE visits
  /\ UNCHANGED << demo, simParams, particleVars, tunerVars, workgroupCount,
                  rafQueue, now, lastTime, totalTime, frameStart, frames,
                  drawVars >>

\* ------------------------------------------------------------------------
\* The fixed-count particle page
\* ------------------------------------------------------------------------

\* animate(): the frame function of the fixed-count page.
animate(gap) ==
  /\ demo = "particles"
  /\ mainState = "done"
  /\ QueueIdle
  /\ frames < MaxFrames
  /\ GapAllowed(gap)
  /\ LET deltaTime == (now + gap) - lastTime
     IN  /\ now' = now + gap
         /\ lastTime' = now + gap
         /\ totalTime' = totalTime + deltaTime
         /\ psParams' = PageParams(totalTime + deltaTime, deltaTime)
  /\ pending' = Invocations(workgroupCount)
  /\ drawQueue' = {DrawCommand(PARTICLE_COUNT)}
  /\ rafQueue' = {NewRequest}
  /\ frameStart' = particles
  /\ visits' = [i \in DOMAIN particles |-> 0]
  /\ frames' = frames + 1
  /\ UNCHANGED << demo, particles, snowVars, tunerVars, workgroupCount,
                  lastDraw >>

\* One invocation of the page's updateParticlesFn.
InvokeParticle(idx) ==
  /\ demo = "particles"
  /\ idx \in pending
  /\ pending' = pending \ {idx}
  /\ particles' = updateParticlesFn(particles, idx, psParams)
  /\ visits' = IF idx < PARTICLE_COUNT
               THEN [visits EXCEPT ![idx] = @ + 1]
               ELSE visits
  /\ UNCHANGED << demo, psParams, snowVars, tunerVars, workgroupCount,
                  rafQueue, now, lastTime, totalTime, frameStart, frames,
                  drawVars >>

\* ------------------------------------------------------------------------
\* The tuner page (ParticleSimulation and the UI listeners)
\* ------------------------------------------------------------------------

\* An init() that leaves the pending callback in place.
initNoCancel(seed, ui) ==
  /\ frames < MaxFrames
  /\ currentParticleCount' = ui.particleCount
  /\ workgroupCount' = WorkgroupCount(ui.particleCount)
  /\ particles' = tunerInitData(seed, ui.particleCount, ui)
  /\ lastTime' = now
  /\ totalTime' = 0
  /\ psParams' = TunerParams(ui, 0, 0)
  /\ pending' = Invocations(WorkgroupCount(ui.particleCount))
  /\ drawQueue' = {DrawCommand(ui.particleCount)}
  /\ rafQueue' = rafQueue \cup {NewRequest}
  /\ animationId' = NewRequest
  /\ frameStart' = particles'
  /\ visits' = [i \in DOMAIN particles' |-> 0]
  /\ frames' = frames + 1
  /\ UNCHANGED << now, snowVars, lastDraw >>

\* An init() that keeps the accumulated time of the run before.
initKeepTime(seed, ui) ==
  /\ frames < MaxFrames
  /\ currentParticleCount' = ui.particleCount
  /\ workgroupCount' = WorkgroupCount(ui.particleCount)
  /\ particles' = tunerInitData(seed, ui.particleCount, ui)
  /\ lastTime' = now
  /\ totalTime' = totalTime
  /\ psParams' = TunerParams(ui, totalTime, 0)
  /\ pending' = Invocations(WorkgroupCount(ui.particleCount))
  /\ drawQueue' = {DrawCommand(ui.particleCount)}
  /\ rafQueue' = (rafQueue \ {animationId}) \cup {NewRequest}
  /\ animationId' = NewRequest
  /\ frameStart' = particles'
  /\ visits' = [i \in DOMAIN particles' |-> 0]
  /\ frames' = frames + 1
  /\ UNCHANGED << now, snowVars, lastDraw >>

\* ParticleSimulation.init(ui.particleCount), with the animate() it ends
\* in: the pending callback is cancelled, the buffers are rebuilt, the
\* first frame is dispatched with lastTime = now, and a frame is requested.
init(seed, ui) ==
  /\ frames < MaxFrames
  /\ currentParticleCount' = ui.particleCount
  /\ workgroupCount' = WorkgroupCount(ui.particleCount)
  /\ particles' = tunerInitData(seed, ui.particleCount, ui)
  /\ lastTime' = now
  /\ totalTime' = 0
  /\ psParams' = TunerParams(ui, 0, 0)
  /\ pending' = Invocations(WorkgroupCount(ui.particleCount))
  /\ drawQueue' = {DrawCommand(ui.particleCount)}
  /\ rafQueue' = (rafQueue \ {animationId}) \cup {NewRequest}
  /\ animationId' = NewRequest
  /\ frameStart' = particles'
  /\ visits' = [i \in DOMAIN particles' |-> 0]
  /\ frames' = frames + 1
  /\ UNCHANGED << now, snowVars, lastDraw >>

\* A listener that writes to the parameters record.
NoRestartWriting ==
  /\ psParams' = [psParams EXCEPT !.time = @ + 1]
  /\ UNCHANGED << particles, animationId, currentParticleCount,
                  workgroupCount, rafQueue, now, lastTime, totalTime, pending,
                  frameStart, visits, frames, snowVars, drawVars >>

\* What a listener leaves alone when no simulation exists (simulation?.).
NoRestart ==
  UNCHANGED << particles, psParams, animationId, currentParticleCount,
               workgroupCount, rafQueue, now, lastTime, totalTime, pending,
               frameStart, visits, frames, snowVars, drawVars >>

\* main(): the capability check, then the simulation is built and started.
main(gpu, context, seed) ==
  /\ demo = "tuner"
  /\ mainState = "pending"
  /\ QueueIdle
  /\ IF gpu /\ context
     THEN /\ mainState' = "done"
          /\ simulation' = "sim"
          /\ init(seed, uiParams)
     ELSE /\ mainState' = "failed"
          /\ simulation' = simulation
          /\ NoRestart
  /\ UNCHANGED << demo, uiParams >>

\* The animation-frame callback animate().
tunerAnimate(gap) ==
  /\ demo = "tuner"
  /\ QueueIdle
  /\ frames < MaxFrames
  /\ gap > 0
  /\ \E id \in rafQueue :
       rafQueue' = (rafQueue \ {id}) \cup {NewRequest}
  /\ animationId' = NewRequest
  /\ LET deltaTime == (now + gap) - lastTime
     IN  /\ now' = now + gap
         /\ lastTime' = now + gap
         /\ totalTime' = totalTime + deltaTime
         /\ psParams' = TunerParams(uiParams, totalTime + deltaTime, deltaTime)
  /\ pending' = Invocations(workgroupCount)
  /\ drawQueue' = {DrawCommand(currentParticleCount)}
  /\ frameStart' = particles
  /\ visits' = [i \in DOMAIN particles |-> 0]
  /\ frames' = frames + 1
  /\ UNCHANGED << demo, particles, snowVars, uiParams, simulation, mainState,
                  currentParticleCount, workgroupCount, lastDraw >>

\* A 'change' listener that restarts without asking whether a simulation
\* exists.
particleCountChangeUnguarded(count, seed) ==
  /\ demo = "tuner"
  /\ QueueIdle
  /\ uiParams' = [uiParams EXCEPT !.particleCount = count]
  /\ init(seed, uiParams')
  /\ UNCHANGED << demo, simulation, mainState >>

\* 'change' of the particle-count slider: readParamsFromUI, restart.
particleCountChange(count, seed) ==
  /\ demo = "tuner"
  /\ QueueIdle
  /\ uiParams' = [uiParams EXCEPT !.particleCount = count]
  /\ IF simulation = "sim" THEN init(seed, uiParams') ELSE NoRestart
  /\ UNCHANGED << demo, simulation, mainState >>

\* 'input' of another slider: readParamsFromUI reads every control, the
\* particle-count slider included, and nothing restarts.
realtimeInput(setting, count) ==
  /\ demo = "tuner"
  /\ QueueIdle
  /\ uiParams' = [setting EXCEPT !.particleCount = count]
  /\ uiParams' # uiParams
  /\ NoRestart
  /\ UNCHANGED << demo, simulation, mainState >>

\* 'click' of the reset button: resetUI, restart.
resetClick(seed) ==
  /\ demo = "tuner"
  /\ QueueIdle
  /\ uiParams' = DEFAULTS
  /\ IF simulation = "sim" THEN init(seed, DEFAULTS) ELSE NoRestart
  /\ UNCHANGED << demo, simulation, mainState >>

\* One invocation of the updateParticlesFn that init() compiled.
InvokeTuner(idx) ==
  /\ demo = "tuner"
  /\ idx \in pending
  /\ pending' = pending \ {idx}
  /\ particles' = tunerUpdateParticlesFn(particles, idx, psParams,
                                         currentParticleCount)
  /\ visits' = IF idx < currentParticleCount
               THEN [visits EXCEPT ![idx] = @ + 1]
               ELSE visits
  /\ UNCHANGED << demo, psParams, snowVars, tunerVars, workgroupCount,
                  rafQueue, now, lastTime, totalTime, frameStart, frames,
                  drawVars >>

\* ------------------------------------------------------------------------
\* The particle draw
\* ------------------------------------------------------------------------

\* The particle draw of a frame runs: after the frame's dispatch, which was
\* submitted before it.  It reads the array through its render binding.
draw ==
  /\ pending = {}
  /\ \E cmd \in drawQueue :
       lastDraw' = [frame |-> cmd.frame, instances |-> cmd.instances,
                    array |-> IF demo = "snowdome" THEN snowflakes
                                                   ELSE particles]
  /\ drawQueue' = {}
  /\ UNCHANGED << demo, snowVars, particleVars, tunerVars, workgroupCount,
                  rafQueue, now, lastTime, totalTime, pending, frameStart,
                  visits, frames >>

Next ==
  \/ draw
  \/ \E gap \in FrameGaps \cup {0} : render(gap)
  \/ \E idx \in pending : InvokeSnowflake(idx)
  \/ \E gap \in FrameGaps \cup {0} : animate(gap)
  \/ \E idx \in pending : InvokeParticle(idx)
  \/ \E gpu \in BOOLEAN, context \in BOOLEAN, seed \in Seeds :
       main(gpu, context, seed)
  \/ \E gap \in FrameGaps : tunerAnimate(gap)
  \/ \E count \in TunerCounts, seed \in Seeds : particleCountChange(count, seed)
  \/ \E setting \in {DEFAULTS, OtherSetting}, count \in TunerCounts :
       realtimeInput(setting, count)
  \/ \E seed \in Seeds : resetClick(seed)
  \/ \E idx \in pending : InvokeTuner(idx)

Spec == Init /\ [][Next]_vars

\* ------------------------------------------------------------------------
\* The snow-dome integrator driven directly: one snowflake, chosen inputs
\* ------------------------------------------------------------------------

\* Steps the model follows.
MaxUnitSteps == 2

UnitPositions ==
  { << 0, 1043, 0 >>,      \* 0.99 R above the centre
    << 0, -150, 0 >>,      \* on the floor
    << 0, -245, 0 >>,      \* below the floor
    << 640, 350, 150 >>,   \* just inside the collision sphere, at the side
    << 430, -170, 0 >>,    \* below the floor and outside the collision sphere
    << 0, 350, 0 >>,       \* the centre
    << 300, 800, -100 >>,  \* upper interior
    << 900, 350, 0 >> }    \* outside the dome

UnitVelocities ==
  { << 0, 1000, 0 >>, << 100, -100, 100 >>, << 5, -10, 5 >>,
    << 300, 0, 400 >>, << 0, 0, 0 >>, << 400, -300, 0 >> }

UnitTimes == {0, 2340}

UnitDeltaTimes == {0, 1, 16, 100}

\* With CONFIG's physics, or with drag and turbulence switched off.
UnitParams(time, calm) ==
  [ConfigParams(time, 16) EXCEPT
     !.dragCoeff = IF calm THEN 0 ELSE @,
     !.turbulence = IF calm THEN 0 ELSE @,
     !.snowflakeCount = 1]

InitUnit ==
  /\ demo = "unit"
  /\ \E pos \in UnitPositions, vel \in UnitVelocities :
       snowflakes = [i \in {0} |-> Snowflake(pos, vel, 10, 1000, 800, 0)]
  /\ \E time \in UnitTimes, calm \in BOOLEAN : simParams = UnitParams(time, calm)
  /\ particles = NoArray
  /\ psParams = PageParams(0, 16)
  /\ mainState = "done"
  /\ currentParticleCount = 0
  /\ workgroupCount = WorkgroupCount(1)
  /\ frameStart = snowflakes
  /\ visits = [i \in DOMAIN snowflakes |-> 0]
  /\ InitCommon

\* One step: time and deltaTime written, the dispatch issued.
UnitDispatch(deltaTime) ==
  /\ demo = "unit"
  /\ QueueIdle
  /\ frames < MaxUnitSteps
  /\ simParams' = [simParams EXCEPT !.time = @ + deltaTime,
                                    !.deltaTime = deltaTime]
  /\ pending' = Invocations(workgroupCount)
  /\ frameStart' = snowflakes
  /\ visits' = [i \in DOMAIN snowflakes |-> 0]
  /\ frames' = frames + 1
  /\ UNCHANGED << demo, snowflakes, particleVars, tunerVars, workgroupCount,
                  rafQueue, now, lastTime, totalTime, drawVars >>

NextUnit ==
  \/ \E deltaTime \in UnitDeltaTimes : UnitDispatch(deltaTime)
  \/ \E idx \in pending : InvokeSnowflake(idx)

SpecUnit == InitUnit /\ [][NextUnit]_vars

\* ------------------------------------------------------------------------
\* The drag-only run: no gravity, no turbulence, no shake, velocity
\* (v, 0, 0), the same deltaTime in every step
\* ------------------------------------------------------------------------

\* Initial speeds v, from slow to fast.
DragSpeeds == {100, 1000, 5000, 10200}

\* Where the run starts: the centre of the dome, or near its side wall.
DragStarts == { << 0, 350, 0 >>, << 660, 350, 0 >> }

DragDeltaTimes == {1, 16, 100}

DragParams(deltaTime) ==
  [ConfigParams(0, deltaTime) EXCEPT
     !.gravity = 0, !.turbulence = 0, !.snowflakeCount = 1]

InitDrag ==
  /\ demo = "unit"
  /\ \E pos \in DragStarts, v \in DragSpeeds :
       snowflakes = [i \in {0} |-> Snowflake(pos, << v, 0, 0 >>, 10, 1000, 800, 0)]
  /\ \E deltaTime \in DragDeltaTimes : simParams = DragParams(deltaTime)
  /\ particles = NoArray
  /\ psParams = PageParams(0, 16)
  /\ mainState = "done"
  /\ currentParticleCount = 0
  /\ workgroupCount = WorkgroupCount(1)
  /\ frameStart = snowflakes
  /\ visits = [i \in DOMAIN snowflakes |-> 0]
  /\ InitCommon

NextDrag ==
  \/ UnitDispatch(simParams.deltaTime)
  \/ \E idx \in pending : InvokeSnowflake(idx)

SpecDrag == InitDrag /\ [][NextDrag]_vars

\* ------------------------------------------------------------------------
\* The respawn draw of a settled snowflake, frame after frame
\* ------------------------------------------------------------------------

\* Indices of the snowflakes watched, out of the 3000 of CONFIG.
SettledIndices == {0, 499, 500, 1000, 2999}

\* Wall-clock gaps between frames, in ms; render() clamps the last to 0.1 s.
SettledGaps == {16, 50, 250}

\* The draw frac(idx * 0.0001 + time * 10) depends on the time through
\* frac(time * 10) only: it has the period 0.1 s in time.  The run keeps
\* the time modulo two periods, so that it can go on for ever in finitely
\* many states and a frame of 0.1 s still changes the state.
TimePeriod == 2 * (Scale \div 10)

\* One snowflake lying on the floor at rest, the others left out.
InitSettled ==
  /\ demo = "settled"
  /\ \E idx \in SettledIndices :
       snowflakes = [i \in {idx} |->
                       Snowflake(<< 0, FLOOR_Y, 0 >>, << 0, 0, 0 >>,
                                 10, 1000, 800, 0)]
  /\ simParams = [ConfigParams(0, 16) EXCEPT !.snowflakeCount = 3000]
  /\ particles = NoArray
  /\ psParams = PageParams(0, 16)
  /\ mainState = "done"
  /\ currentParticleCount = 0
  /\ workgroupCount = 0
  /\ frameStart = snowflakes
  /\ visits = [i \in DOMAIN snowflakes |-> 0]
  /\ InitCommon

\* A frame of render() as the respawn draw sees it: deltaTime clamped,
\* totalTime accumulated, both written to SimParams.  frames turns 1 with
\* the first frame and stays.
SettledFrame(gap) ==
  /\ demo = "settled"
  /\ LET deltaTime == Min(gap, 100)
     IN  /\ totalTime' = (totalTime + deltaTime) % TimePeriod
         /\ simParams' = [simParams EXCEPT
                            !.time = (totalTime + deltaTime) % TimePeriod,
                            !.deltaTime = deltaTime]
  /\ frames' = 1
  /\ UNCHANGED << demo, snowflakes, particleVars, tunerVars, workgroupCount,
                  rafQueue, now, lastTime, pending, frameStart, visits,
                  drawVars >>

NextSettled == \E gap \in SettledGaps : SettledFrame(gap)

\* The browser keeps delivering animation frames.
SpecSettled == InitSettled /\ [][NextSettled]_vars /\ WF_vars(NextSettled)

\* ------------------------------------------------------------------------
\* The life of the particles of a particle page, frame after frame
\* ------------------------------------------------------------------------

\* Wall-clock gaps between frames, in ms.
LifeGaps == {100, 250}

\* A particle array with the lives only: the life a step writes depends on
\* the life, deltaTime and lifeDecay and on nothing else, so position and
\* velocity are left out and the run goes on for ever in finitely many
\* states.
LifeOnly(arr) ==
  [i \in DOMAIN arr |-> Particle(<< 0, 0, 0 >>, << 0, 0, 0 >>, arr[i].life)]

\* The array with one particle watched and the others, which the step of
\* this one neither reads nor writes, left out.
Watch(arr, idx) == [i \in {idx} |-> arr[i]]

\* A particle page after its first frame, with the sliders at one setting.
InitLife ==
  /\ demo \in {"particles", "tuner"}
  /\ \E seed \in 0 .. (Len(RandomDraws) - 1), ui \in {DEFAULTS, OtherSetting},
        idx \in 0 .. (PARTICLE_COUNT - 1) :
       /\ uiParams = IF demo = "tuner" THEN ui ELSE DEFAULTS
       /\ idx < uiParams.particleCount
       /\ particles = LifeOnly(Watch(IF demo = "tuner"
                                     THEN tunerInitData(seed, ui.particleCount, ui)
                                     ELSE initData(seed), idx))
       /\ psParams = IF demo = "tuner" THEN TunerParams(ui, 0, 0)
                                       ELSE PageParams(0, 0)
  /\ currentParticleCount = IF demo = "tuner" THEN uiParams.particleCount ELSE 0
  /\ workgroupCount = WorkgroupCount(IF demo = "tuner"
                                     THEN uiParams.particleCount
                                     ELSE PARTICLE_COUNT)
  /\ simulation = IF demo = "tuner" THEN "sim" ELSE "null"
  /\ mainState = "done"
  /\ snowflakes = NoArray
  /\ simParams = ConfigParams(0, 16)
  /\ now = 0 /\ lastTime = 0 /\ totalTime = 0
  /\ rafQueue = {} /\ animationId = 0
  /\ pending = {}
  /\ frames = 1
  /\ frameStart = particles
  /\ visits = [i \in DOMAIN particles |-> 0]
  /\ drawQueue = {}
  /\ lastDraw = [frame |-> 0, instances |-> 0, array |-> << >>]

\* A frame of animate() as the life of the particle watched sees it:
\* deltaTime written, the dispatch issued, of which the invocation of the
\* particle watched is followed.
LifeFrame(gap) ==
  /\ pending = {}
  /\ psParams' = [psParams EXCEPT !.deltaTime = gap]
  /\ pending' = Invocations(workgroupCount) \cap DOMAIN particles
  /\ frameStart' = particles
  /\ UNCHANGED << demo, particles, snowVars, tunerVars, workgroupCount,
                  rafQueue, now, lastTime, totalTime, visits, frames,
                  drawVars >>

\* One invocation of the page's updateParticlesFn.
LifeInvoke(idx) ==
  /\ idx \in pending
  /\ pending' = pending \ {idx}
  /\ particles' = LifeOnly(IF demo = "tuner"
                           THEN tunerUpdateParticlesFn(particles, idx, psParams,
                                                       currentParticleCount)
                           ELSE updateParticlesFn(particles, idx, psParams))
  /\ UNCHANGED << demo, psParams, snowVars, tunerVars, workgroupCount,
                  rafQueue, now, lastTime, totalTime, frameStart, visits,
                  frames, drawVars >>

NextLife ==
  \/ \E gap \in LifeGaps : LifeFrame(gap)
  \/ \E idx \in pending : LifeInvoke(idx)

\* The browser keeps delivering animation frames and the GPU finishes the
\* dispatches it is given.
SpecLife == InitLife /\ [][NextLife]_vars /\ WF_vars(NextLife)

\* ------------------------------------------------------------------------
\* Reading a step back from the state
\* ------------------------------------------------------------------------

\* Invocation i of the latest dispatch has run.
Done(i) == frames > 0 /\ i \notin pending

\* Record i has been through at least one step.
Stepped(i) == frames > 1 \/ Done(i)

\* Snowflake i of the latest dispatch after the integration, after the dome,
\* after the floor.
Integrated(i) == Integrate(frameStart[i], simParams)

AfterDome(i) == DomeCollide(Integrated(i), simParams)

AfterFloor(i) == FloorCollide(AfterDome(i), simParams)

\* The dome clamp acted on snowflake i in the latest dispatch.
DomeHit(i) == DomeDist(Integrated(i).pos, simParams) > MaxRadius(simParams)

\* The floor clamp acted.
FloorHit(i) == AfterDome(i).pos[2] < simParams.floorY

\* The respawn acted.
Respawned(i) ==
  /\ AfterFloor(i).onFloor
  /\ Length3(AfterFloor(i).vel[1], AfterFloor(i).vel[2], AfterFloor(i).vel[3]) < 20
  /\ FracTrunc(i + simParams.time * 100, 10000) < 500

SnowPage == demo \in {"snowdome", "unit"}

\* ------------------------------------------------------------------------
\* Claims
\* ------------------------------------------------------------------------

\* C1: after one or more steps every snowflake's written position is within
\* 0.95 * domeRadius of the dome centre, also
\* when the floor clamp or the respawn wrote the position after the dome
\* clamp.
C1_InsideDome ==
  SnowPage =>
    \A i \in DOMAIN snowflakes :
      Stepped(i) =>
        DomeDist(snowflakes[i].position, simParams)
          <= MaxRadius(simParams)

\* C1 witness: one step in which the dome clamp, the floor clamp and the
\* respawn all acted on the snowflake.
C1_Witness ==
  /\ demo = "unit" /\ Done(0)
  /\ DomeHit(0) /\ FloorHit(0) /\ Respawned(0)

\* C2: after one or more steps every snowflake's written height is at least
\* floorY.
C2_AboveFloor ==
  SnowPage =>
    \A i \in DOMAIN snowflakes :
      Stepped(i) => snowflakes[i].position[2] >= simParams.floorY

\* C2 witness: a step in which the dome clamp moved the snowflake to a place
\* below the floor and the floor clamp lifted it, with no respawn.
C2_Witness ==
  /\ demo = "unit" /\ Done(0)
  /\ DomeHit(0) /\ FloorHit(0) /\ ~Respawned(0)
  /\ snowflakes[0].position[2] = simParams.floorY

\* The position and the velocity of snowflake i are those of the start of
\* the latest dispatch.
Unmoved(i) ==
  /\ snowflakes[i].position = frameStart[i].position
  /\ snowflakes[i].velocity = frameStart[i].velocity

\* Snowflake i started the latest dispatch on or above the floor and inside
\* the collision sphere.
StartedInside(i) ==
  /\ frameStart[i].position[2] >= simParams.floorY
  /\ DomeDist(frameStart[i].position, simParams) <= MaxRadius(simParams)

\* C3, as stated: with deltaTime = 0 one step leaves the position and the
\* velocity of every snowflake unchanged, whatever state it is in.
C3_ZeroStepAnyState ==
  SnowPage =>
    \A i \in DOMAIN snowflakes :
      (Done(i) /\ simParams.deltaTime = 0) => Unmoved(i)

\* C3, amended: with deltaTime = 0 one step leaves the position and the
\* velocity unchanged of every snowflake that starts the step on or above
\* floorY and within 0.95 * domeRadius of the dome centre.
C3_ZeroStepInside ==
  SnowPage =>
    \A i \in DOMAIN snowflakes :
      (Done(i) /\ simParams.deltaTime = 0 /\ StartedInside(i)) => Unmoved(i)

\* C3 witness: a zero step of a slow snowflake lying exactly on the floor, at
\* a time at which the respawn draw selects it.
C3_Witness ==
  /\ demo = "unit" /\ Done(0)
  /\ simParams.deltaTime = 0
  /\ StartedInside(0)
  /\ frameStart[0].position[2] = simParams.floorY
  /\ Length3(frameStart[0].velocity[1], frameStart[0].velocity[2],
             frameStart[0].velocity[3]) \in 1 .. 19
  /\ RespawnSelected(0, simParams)
  /\ simParams.turbulence > 0

\* The arrays a dispatch of n invocations leaves when they run one after
\* the other in index order.
RECURSIVE SnowflakesInOrder(_, _, _)
SnowflakesInOrder(arr, n, p) ==
  IF n = 0
  THEN arr
  ELSE updateSnowflakesFn(SnowflakesInOrder(arr, n - 1, p), n - 1, p)

RECURSIVE ParticlesInOrder(_, _, _)
ParticlesInOrder(arr, n, p) ==
  IF n = 0
  THEN arr
  ELSE updateParticlesFn(ParticlesInOrder(arr, n - 1, p), n - 1, p)

RECURSIVE TunerInOrder(_, _, _, _)
TunerInOrder(arr, n, p, particleCount) ==
  IF n = 0
  THEN arr
  ELSE tunerUpdateParticlesFn(TunerInOrder(arr, n - 1, p, particleCount),
                              n - 1, p, particleCount)

\* The number of invocations of a dispatch.
InvocationCount == workgroupCount * WORKGROUP_SIZE

\* The array of the loaded page.
PageArray == IF SnowPage THEN snowflakes ELSE particles

\* The array the latest dispatch leaves when run in index order.
InOrderResult ==
  CASE SnowPage -> SnowflakesInOrder(frameStart, InvocationCount, simParams)
    [] demo = "particles" ->
         ParticlesInOrder(frameStart, InvocationCount, psParams)
    [] OTHER ->
         TunerInOrder(frameStart, InvocationCount, psParams,
                      currentParticleCount)

\* C5: whatever the order in which the invocations of a dispatch run, a
\* record whose invocation has run holds what the run in index order gives
\* it, and a record whose invocation has not run holds its value of the
\* start of the dispatch; so the finished dispatch leaves the array of the
\* run in index order (snow dome and both particle pages).
C5_OrderIndependent ==
  frames > 0 =>
    /\ DOMAIN PageArray = DOMAIN frameStart
    /\ \A i \in DOMAIN PageArray :
         PageArray[i] = IF i \in pending
                        THEN frameStart[i]
                        ELSE InOrderResult[i]

\* C5 witness: a later record written while an earlier one still waits.
C5_Witness ==
  /\ demo = "snowdome"
  /\ \E i \in DOMAIN snowflakes, j \in DOMAIN snowflakes :
       /\ i < j
       /\ i \in pending /\ j \notin pending
       /\ snowflakes[j] # frameStart[j]
       /\ InOrderResult[i] # frameStart[i]

\* The number of records a page was created with: none when main() ended
\* in its capability check.
CreatedCount ==
  CASE mainState = "failed" -> 0
    [] SnowPage -> simParams.snowflakeCount
    [] demo = "particles" -> PARTICLE_COUNT
    [] OTHER -> currentParticleCount

\* C6: the array of a page always holds the records 0 .. N-1 it was created
\* with; a step writes into the slots of the start of the dispatch, and a
\* snowflake keeps the fields that tell it from the others (size, phase,
\* alpha, rotation).
C6_PopulationFixed ==
  /\ DOMAIN PageArray = 0 .. (CreatedCount - 1)
  /\ DOMAIN PageArray = DOMAIN frameStart
  /\ SnowPage =>
       \A i \in DOMAIN snowflakes :
         /\ snowflakes[i].size = frameStart[i].size
         /\ snowflakes[i].phase = frameStart[i].phase
         /\ snowflakes[i].alpha = frameStart[i].alpha
         /\ snowflakes[i].rotation = frameStart[i].rotation

\* C6 witness: a finished frame of the snow dome in which a snowflake was
\* respawned.
C6_Witness ==
  /\ demo = "snowdome" /\ frames > 0 /\ pending = {}
  /\ \E i \in DOMAIN snowflakes :
       /\ Respawned(i)
       /\ snowflakes[i].position = RespawnPosition(i, simParams)

\* C7: a frame's dispatch has ceil(N / WORKGROUP_SIZE) workgroups; when it
\* has finished every record 0 .. N-1 has been processed exactly once, no
\* record is ever processed twice, and fewer than WORKGROUP_SIZE invocations
\* have an index >= N and process nothing.
C7_OncePerFrame ==
  frames > 0 =>
    /\ workgroupCount * WORKGROUP_SIZE >= CreatedCount
    /\ (workgroupCount - 1) * WORKGROUP_SIZE < CreatedCount
    /\ DOMAIN visits = 0 .. (CreatedCount - 1)
    /\ \A i \in DOMAIN visits :
         visits[i] = IF i \in pending THEN 0 ELSE 1
    /\ Cardinality({idx \in Invocations(workgroupCount) :
                      idx >= CreatedCount}) < WORKGROUP_SIZE

\* C7 witness: a finished dispatch with a surplus invocation.
C7_Witness ==
  /\ frames > 0 /\ pending = {}
  /\ InvocationCount > CreatedCount
  /\ \A i \in DOMAIN visits : visits[i] = 1

\* The normal of the dome where snowflake i left it in the latest dispatch.
HitNormal(i) == DomeNormal(Integrated(i).pos, simParams)

\* The component of a velocity along a unit normal, as a vector, and the
\* rest of it.
NormalPart(vel, n) ==
  << Mul(Dot3(vel, n), n[1]), Mul(Dot3(vel, n), n[2]), Mul(Dot3(vel, n), n[3]) >>

TangentialPart(vel, n) ==
  << vel[1] - NormalPart(vel, n)[1],
     vel[2] - NormalPart(vel, n)[2],
     vel[3] - NormalPart(vel, n)[3] >>

\* Two fixed-point vectors agree up to d units per coordinate.
Near(a, b, d) == \A k \in 1 .. 3 : Abs(a[k] - b[k]) <= d

\* The response of the dome as it shows in the written record of snowflake
\* i: on the sphere of radius 0.95 * domeRadius, radially; the normal
\* component reversed and scaled by restitution when the velocity pointed
\* outward, the velocity untouched otherwise.
DomeResponse(i) ==
  LET n       == HitNormal(i)
      velDotN == Dot3(Integrated(i).vel, n)
      pos     == snowflakes[i].position
      vel     == snowflakes[i].velocity
  IN  /\ Near(pos, << Mul(n[1], MaxRadius(simParams)),
                      Mul(n[2], MaxRadius(simParams)) + simParams.domeCenterY,
                      Mul(n[3], MaxRadius(simParams)) >>, 0)
      /\ MaxRadius(simParams) - DomeDist(pos, simParams) \in 0 .. 2
      /\ velDotN > 0 =>
           Abs(Dot3(vel, n) + Mul(velDotN, simParams.restitution)) <= 2
      /\ velDotN <= 0 => vel = Integrated(i).vel

\* The scenario: from (0, domeCenterY + 0.99 R, 0) with velocity (0, 1, 0),
\* no drag, no turbulence, deltaTime 0.001.
Scenario ==
  /\ frameStart[0].position =
       << 0, simParams.domeCenterY + Mul(simParams.domeRadius, 990), 0 >>
  /\ frameStart[0].velocity = << 0, Scale, 0 >>
  /\ simParams.dragCoeff = 0 /\ simParams.turbulence = 0
  /\ simParams.deltaTime = 1

\* The scenario's result: radius 0.95 R, vertical velocity about -0.1.
ScenarioResult ==
  /\ snowflakes[0].position =
       << 0, simParams.domeCenterY + MaxRadius(simParams), 0 >>
  /\ Abs(snowflakes[0].velocity[2] + simParams.restitution) <= 1
  /\ snowflakes[0].velocity[1] = 0 /\ snowflakes[0].velocity[3] = 0

\* C8, as stated: a snowflake whose integrated position is farther than
\* 0.95 R from the centre is, after the step, radially on the 0.95 R sphere,
\* its normal velocity -restitution times the one before the reflection if
\* it pointed outward, its velocity unchanged by the dome otherwise.
C8_DomeResponseAnyStep ==
  SnowPage =>
    \A i \in DOMAIN snowflakes :
      (Done(i) /\ DomeHit(i)) => DomeResponse(i)

\* C8, amended: the same, for a step in which the floor clamp does not act
\* after the dome clamp; and the scenario ends at radius 0.95 R with a
\* vertical velocity of about -0.1.
C8_DomeResponse ==
  SnowPage =>
    /\ \A i \in DOMAIN snowflakes :
         (Done(i) /\ DomeHit(i) /\ ~FloorHit(i)) => DomeResponse(i)
    /\ (Done(0) /\ Scenario) => ScenarioResult

\* C8 witness: the scenario has run.
C8_Witness ==
  /\ demo = "unit" /\ Done(0)
  /\ Scenario /\ DomeHit(0) /\ ~FloorHit(0)
  /\ Dot3(Integrated(0).vel, HitNormal(0)) > 0

\* C9: on a dome collision with outward velocity the tangential component
\* of the written velocity is that of the velocity before the reflection
\* (up to the grid of the fixed-point numbers).
C9_TangentialKept ==
  SnowPage =>
    \A i \in DOMAIN snowflakes :
      (/\ Done(i) /\ DomeHit(i) /\ ~FloorHit(i)
       /\ Dot3(Integrated(i).vel, HitNormal(i)) > 0)
      => Near(TangentialPart(snowflakes[i].velocity, HitNormal(i)),
              TangentialPart(Integrated(i).vel, HitNormal(i)), 5)

\* C10: a step respawns a snowflake only if the floor clamp acted on it in
\* this step (so its integrated height was below floorY) and its speed after
\* the collisions is below 0.02; in every other case the written position
\* and velocity are the integrated, collision-corrected ones.
C10_RespawnGate ==
  SnowPage =>
    \A i \in DOMAIN snowflakes :
      Done(i) =>
        LET c    == AfterFloor(i)
            slow == Length3(c.vel[1], c.vel[2], c.vel[3]) < 20
        IN  /\ (snowflakes[i].position # c.pos \/ snowflakes[i].velocity # c.vel)
                 => /\ FloorHit(i)
                    /\ Integrated(i).pos[2] < simParams.floorY
                    /\ slow
            /\ ~(FloorHit(i) /\ slow)
                 => /\ snowflakes[i].position = c.pos
                    /\ snowflakes[i].velocity = c.vel

\* C10 witness: a respawn, and on the floor.
C10_Witness ==
  /\ demo = "unit" /\ Done(0)
  /\ FloorHit(0) /\ Respawned(0)
  /\ snowflakes[0].position = RespawnPosition(0, simParams)
  /\ snowflakes[0].position # AfterFloor(0).pos

\* The respawn region: heights domeCenterY + domeRadius * h with h in
\* [0.5, 0.85], and at each height a disc around the axis of radius
\* 0.85 * sqrt(0.9 R^2 - (y - domeCenterY)^2).
InRespawnRegion(pos, p) ==
  LET relativeY == pos[2] - p.domeCenterY
  IN  /\ relativeY >= Mul(p.domeRadius, 500)
      /\ relativeY <= Mul(p.domeRadius, 850)
      /\ Length3(pos[1], 0, pos[3])
           <= Mul(ISqrt((p.domeRadius * p.domeRadius * 9) \div 10
                        - relativeY * relativeY), 850)

\* Snowflake i started the latest dispatch at floorY with velocity vel.
StartedOnFloorWith(i, vel) ==
  /\ frameStart[i].position[2] = simParams.floorY
  /\ frameStart[i].velocity = vel

RespawnIndices == {0, 1, 2, 3, 50, 999, 2000}

Speed(vel) == Length3(vel[1], vel[2], vel[3])

\* C13: in the drag-only run the speed after a step that touches neither
\* dome nor floor is never larger than the speed before it.
C13_DragMonotone ==
  (demo = "unit" /\ simParams.gravity = 0 /\ simParams.turbulence = 0)
  => \A i \in DOMAIN snowflakes :
       (Done(i) /\ ~DomeHit(i) /\ ~FloorHit(i))
       => Speed(snowflakes[i].velocity) <= Speed(frameStart[i].velocity)

\* C14: in every frame of the snow dome the deltaTime written to SimParams
\* is the smaller of the wall-clock time since the frame before and 0.1 s,
\* so it lies in [0, 0.1].
C14_DeltaTimeClamped ==
  [][(demo = "snowdome" /\ frames' = frames + 1)
     => /\ simParams'.deltaTime =
             IF now' - lastTime < 100 THEN now' - lastTime ELSE 100
        /\ simParams'.deltaTime \in 0 .. 100]_vars

\* C14 witness: a frame after a gap longer than 0.1 s, so that the
\* simulated time has fallen behind the wall clock.
C14_Witness ==
  /\ demo = "snowdome" /\ frames > 1
  /\ simParams.deltaTime = 100
  /\ totalTime < now

\* C15: on the particle pages the deltaTime in the parameters record never
\* exceeds 0.1 s.
C15_ParticleDeltaTimeClamped ==
  demo \in {"particles", "tuner"} => psParams.deltaTime <= 100

\* The parameters record of the loaded page.
ParamsRecord == IF SnowPage THEN simParams ELSE psParams

\* C16: the parameters record is written by the frame function only, once,
\* with the frame's time, when no step runs, and the dispatch follows it;
\* no other handler changes it, and it does not change while a step runs.
C16_ParamsWrittenByFrame ==
  [][/\ frames' = frames + 1
          => /\ pending = {}
             /\ ParamsRecord'.time = totalTime'
             /\ pending' = Invocations(workgroupCount')
     /\ frames' = frames => ParamsRecord' = ParamsRecord
     /\ pending # {} => ParamsRecord' = ParamsRecord]_vars

\* C16 witness: the sliders have been moved and the parameters record still
\* holds the gravity of the last frame.
C16_Witness ==
  /\ demo = "tuner" /\ simulation = "sim" /\ frames > 0
  /\ psParams.gravity # << uiParams.gravityX, uiParams.gravityY, 0 >>

\* C17: one frame chain, one dispatch and one particle draw per frame, in
\* this order.  The callback pending is the one the latest frame
\* requested; the draw queued is the latest frame's; the draw of the frame
\* before has run when a frame is issued; and the draw of a frame runs when
\* the frame's step is complete and reads the array that step leaves, which
\* it does not change.
C17_DrawBetweenSteps ==
  ~SnowPage \/ demo = "snowdome" =>
    /\ rafQueue \subseteq {frames}
    /\ frames = 0 => rafQueue = {} /\ drawQueue = {}
    /\ drawQueue \subseteq {[frame |-> frames, instances |-> CreatedCount]}
    /\ frames > 0 =>
         lastDraw.frame = IF drawQueue = {} THEN frames ELSE frames - 1
    /\ (frames > 0 /\ lastDraw.frame = frames)
         => /\ pending = {}
            /\ lastDraw.array = InOrderResult
            /\ lastDraw.array = PageArray

\* C17 witness: the second draw of the snow dome has run, on an array the
\* second step has changed.
C17_Witness ==
  /\ demo = "snowdome" /\ frames = 2
  /\ lastDraw.frame = 2
  /\ lastDraw.array # frameStart
  /\ rafQueue = {2}

\* The three counts of the tuner page agree with the array.
TunerCountsAgree ==
  /\ DOMAIN particles = 0 .. (currentParticleCount - 1)
  /\ workgroupCount * WORKGROUP_SIZE >= currentParticleCount
  /\ (workgroupCount - 1) * WORKGROUP_SIZE < currentParticleCount
  /\ \A cmd \in drawQueue : cmd.instances = currentParticleCount
  /\ lastDraw.frame = frames
       => /\ lastDraw.instances = currentParticleCount
          /\ DOMAIN lastDraw.array = DOMAIN particles
  /\ DOMAIN frameStart = DOMAIN particles
  /\ DOMAIN visits = DOMAIN particles

\* C18: a restart of the tuner page happens when no step runs; it leaves
\* no callback pending but the one it requests, an array of the requested
\* count, totalTime 0, and the first step of the new array dispatched; and
\* at all times the steps and draws are those of the array of the latest
\* init, with the count of the bounds check, the workgroup count and the
\* instance count of the draw taken from that init.
C18_Restart ==
  [][demo = "tuner" =>
       /\ simulation' = "sim" => TunerCountsAgree' /\ rafQueue' = {animationId'}
       /\ (frames' = frames + 1 /\ now' = now)
            => /\ pending = {} /\ drawQueue = {}
               /\ currentParticleCount' = uiParams'.particleCount
               /\ totalTime' = 0 /\ psParams'.time = 0
               /\ animationId \notin rafQueue'
               /\ frameStart' = particles'
               /\ pending' = Invocations(workgroupCount')]_vars

\* C18 witness: after a restart with another count, the first step and draw
\* of the new array have run.
C18_Witness ==
  /\ demo = "tuner" /\ simulation = "sim" /\ frames >= 2
  /\ totalTime = 0
  /\ currentParticleCount # DEFAULT_PARTICLE_COUNT
  /\ pending = {} /\ lastDraw.frame = frames
  /\ lastDraw.instances = currentParticleCount

\* C19: an invocation whose index is not below the particle count of its
\* page changes neither the array nor the parameters record, and counts for
\* no record.
C19_BoundsCheck ==
  [][\A idx \in pending \ pending' :
       idx >= CreatedCount
       => /\ PageArray' = PageArray
          /\ ParamsRecord' = ParamsRecord
          /\ visits' = visits]_vars

\* C19 witness: the surplus invocation of a snow-dome dispatch has run
\* before every other.
C19_Witness ==
  /\ demo = "snowdome" /\ frames > 0
  /\ InvocationCount > CreatedCount
  /\ pending = DOMAIN snowflakes
  /\ snowflakes = frameStart

\* C20: at all times the size, phase, alpha and rotation of every snowflake
\* of the snow dome are those generateInitialSnowflakes gave it.
C20_RenderFieldsKept ==
  demo = "snowdome" =>
    \E seed \in 0 .. (Len(InitialDraws) - 1) :
      \A i \in DOMAIN snowflakes :
        /\ snowflakes[i].size = generateInitialSnowflakes(seed)[i].size
        /\ snowflakes[i].phase = generateInitialSnowflakes(seed)[i].phase
        /\ snowflakes[i].alpha = generateInitialSnowflakes(seed)[i].alpha
        /\ snowflakes[i].rotation = generateInitialSnowflakes(seed)[i].rotation

\* C20 witness: the snow dome after its last frame, a snowflake respawned
\* in it, every snowflake moved since its creation.
C20_Witness ==
  /\ demo = "snowdome" /\ frames > 1 /\ pending = {}
  /\ \E i \in DOMAIN snowflakes :
       /\ Respawned(i)
       /\ snowflakes[i].position = RespawnPosition(i, simParams)
  /\ \A seed \in 0 .. (Len(InitialDraws) - 1), i \in DOMAIN snowflakes :
       snowflakes[i].position # generateInitialSnowflakes(seed)[i].position

\* ------------------------------------------------------------------------
\* C21: the simulation time
\* ------------------------------------------------------------------------

\* C21: the time written to the parameters record is the sum of the
\* deltaTime values written since the simulation started: a frame adds the
\* deltaTime it writes to the time of the frame before, the time never
\* decreases from one frame to the next, and init() of the tuner page
\* starts the sum again from 0.
C21_TimeAccumulates ==
  [][frames' = frames + 1
       => /\ ParamsRecord'.deltaTime >= 0
          /\ ParamsRecord'.time = totalTime'
          /\ IF demo = "tuner" /\ now' = now
             THEN ParamsRecord'.time = 0 /\ ParamsRecord'.deltaTime = 0
             ELSE /\ ParamsRecord'.time
                       = ParamsRecord.time + ParamsRecord'.deltaTime
                  /\ ParamsRecord'.time >= ParamsRecord.time]_vars

\* C21 witness: the tuner page has been restarted after a frame had
\* accumulated time, and the record holds the time 0 of the new run.
C21_Witness ==
  /\ demo = "tuner" /\ frames = MaxFrames
  /\ now > 0 /\ lastTime = now
  /\ psParams.time = 0 /\ totalTime = 0

\* ------------------------------------------------------------------------
\* C22: the floor collision response
\* ------------------------------------------------------------------------

\* The velocity the claim gives a snowflake the floor acts on.
FloorResponseVelocity(vel) ==
  << Mul(vel[1], 900),
     IF vel[2] < 0
     THEN Mul(Mul(Abs(vel[2]), simParams.restitution), 500)
     ELSE vel[2],
     Mul(vel[3], 900) >>

\* The respawn test on the velocity the claim gives.
RespawnAfterFloor(i) ==
  /\ Speed(FloorResponseVelocity(AfterDome(i).vel)) < 20
  /\ RespawnSelected(i, simParams)

\* C22: with (y, v) the state after the dome stage of the step: when
\* y < floorY the floor sets y to floorY and keeps x and z, sets
\* vy to |vy| * restitution * 0.5 if vy < 0 and keeps it otherwise, and
\* multiplies vx and vz by 0.9; the step writes this state unless the
\* respawn, which only such a snowflake can get, replaces it.  When
\* y >= floorY the floor changes nothing, the snowflake is not on the floor
\* and the step writes the state after the dome stage, however slow the
\* snowflake is and whatever the respawn draw.
C22_FloorResponse ==
  \A i \in DOMAIN snowflakes :
    (SnowPage /\ Done(i)) =>
      IF AfterDome(i).pos[2] < simParams.floorY
      THEN \/ RespawnAfterFloor(i)
           \/ /\ snowflakes[i].position
                   = << AfterDome(i).pos[1], simParams.floorY,
                        AfterDome(i).pos[3] >>
              /\ snowflakes[i].velocity
                   = FloorResponseVelocity(AfterDome(i).vel)
      ELSE /\ snowflakes[i].position = AfterDome(i).pos
           /\ snowflakes[i].velocity = AfterDome(i).vel

\* C22 witness: a snowflake moving down and sideways went below the floor
\* and was not respawned: it was written at floorY with the bounce and the
\* friction.
C22_Witness ==
  /\ SnowPage /\ Done(0)
  /\ AfterDome(0).pos[2] < simParams.floorY
  /\ AfterDome(0).vel[2] < -100
  /\ AfterDome(0).vel[1] > 50
  /\ ~RespawnAfterFloor(0)
  /\ snowflakes[0].position[2] = simParams.floorY
  /\ snowflakes[0].velocity[1] < AfterDome(0).vel[1]

\* ------------------------------------------------------------------------
\* C23: the order of the integration
\* ------------------------------------------------------------------------

\* v + a: componentwise sum of two vectors.
Add3(a, b) == << a[1] + b[1], a[2] + b[2], a[3] + b[3] >>

\* v * dt, componentwise.
Times(v, dt) == << Mul(v[1], dt), Mul(v[2], dt), Mul(v[3], dt) >>

\* The acceleration of the snow-dome integrator at the state a step
\* starts from.
SnowAcceleration(s, p) ==
  Add3(Add3(Drag(s.velocity, p), Turbulence(s, p)),
       << p.shakeAccelX, p.shakeAccelY - p.gravity, p.shakeAccelZ >>)

\* The record of the loaded page that invocation i started from moved as
\* the claim says: velocity first, position with the new velocity.
SemiImplicit(i) ==
  LET old == frameStart[i]
      p   == ParamsRecord
      dt  == p.deltaTime
      new == PageArray[i]
      v1  == IF SnowPage
             THEN Add3(old.velocity, Times(SnowAcceleration(old, p), dt))
             ELSE IF demo = "tuner"
                  THEN Add3(Times(old.velocity, Scale - Mul(p.drag, dt)),
                            Times(p.gravity, dt))
                  ELSE Add3(old.velocity, Times(p.gravity, dt))
  IN  /\ new.velocity = v1
      /\ new.position = Add3(old.position, Times(v1, dt))

\* The step of invocation i integrated and nothing else: on the snow-dome
\* page neither the dome nor the floor acted, on the particle pages the
\* particle was alive.
PlainStep(i) ==
  /\ Done(i)
  /\ i \in DOMAIN PageArray
  /\ IF SnowPage THEN ~DomeHit(i) /\ ~FloorHit(i)
                 ELSE frameStart[i].life > 0

\* C23: the three integrators are semi-implicit Euler: the velocity is
\* updated from the accelerations first, v' = v + a * deltaTime, and the
\* position then moves with the new velocity, p' = p + v' * deltaTime.
C23_SemiImplicitEuler ==
  \A i \in DOMAIN PageArray : PlainStep(i) => SemiImplicit(i)

\* C23 witness: a live particle of the fixed-count page has been moved by
\* a step with deltaTime > 0, to a place other than the one the velocity
\* it started with leads to.
C23_Witness ==
  /\ demo = "particles" /\ PlainStep(0)
  /\ psParams.deltaTime > 0
  /\ particles[0].position
       # Add3(frameStart[0].position,
              Times(frameStart[0].velocity, psParams.deltaTime))

\* ------------------------------------------------------------------------
\* C24: the life cycle of a particle
\* ------------------------------------------------------------------------

\* Every component of v lies in [-bound, bound].
Within(v, bound) == \A k \in 1 .. 3 : -bound <= v[k] /\ v[k] <= bound

\* What a step takes from the life of a live particle: deltaTime * lifeDecay
\* on the tuner page, deltaTime on the fixed-count page.
LifeSpent == IF demo = "tuner"
             THEN Mul(psParams.deltaTime, psParams.lifeDecay)
             ELSE psParams.deltaTime

\* The ranges of a reset: the sliders of the tuner page, 5 and 0.5 on the
\* fixed-count page.
ResetSpawnRange == IF demo = "tuner" THEN psParams.spawnRange ELSE 5 * Scale

ResetVelocityRange == IF demo = "tuner" THEN psParams.initialVelocity
                                         ELSE Scale \div 2

\* C24: a step of a particle page does one of two things to a particle.
\* With life > 0 the particle is integrated and its life goes down by
\* deltaTime * lifeDecay (deltaTime on the fixed-count page); it is not
\* reset.  With life <= 0 it is reset in place: life 1.0, every position
\* component in [-spawnRange, spawnRange], every velocity component in
\* [-initialVelocity, initialVelocity]; it is not integrated in that step.
C24_LifeCycle ==
  \A i \in DOMAIN particles :
    (demo \in {"particles", "tuner"} /\ Done(i)) =>
      IF frameStart[i].life > 0
      THEN /\ SemiImplicit(i)
           /\ particles[i].life = frameStart[i].life - LifeSpent
      ELSE /\ particles[i].life = Scale
           /\ Within(particles[i].position, ResetSpawnRange)
           /\ Within(particles[i].velocity, ResetVelocityRange)

\* C24 witness: an expired particle has been reset by a step with
\* deltaTime > 0 and gravity: it is alive again and away from the origin.
C24_Witness ==
  /\ demo \in {"particles", "tuner"} /\ Done(0) /\ 0 \in DOMAIN particles
  /\ frameStart[0].life <= 0
  /\ psParams.deltaTime > 0 /\ psParams.gravity[2] < 0
  /\ particles[0].life = Scale
  /\ particles[0].position # << 0, 0, 0 >>

\* ------------------------------------------------------------------------
\* C25: the capability check
\* ------------------------------------------------------------------------

\* C25: when navigator.gpu or the canvas context is missing, main() ends in
\* its error outcome and nothing has been started: no particle array
\* exists, no frame has run, no dispatch or draw is queued and no
\* animation-frame callback is pending.  On the tuner page this stays so
\* after later UI events (a particle-count change, a reset click, a slider
\* input), because simulation stays null.
C25_NothingStartsAfterFailure ==
  mainState = "failed" =>
    /\ simulation = "null"
    /\ snowflakes = NoArray /\ particles = NoArray
    /\ frames = 0 /\ totalTime = 0
    /\ pending = {} /\ drawQueue = {}
    /\ rafQueue = {} /\ animationId = 0

\* C25 witness: main() of the tuner page has failed and the sliders have
\* been moved: the particle count and another slider are away from their
\* defaults.
C25_Witness ==
  /\ demo = "tuner" /\ mainState = "failed"
  /\ uiParams.particleCount # DEFAULTS.particleCount
  /\ uiParams.drag # DEFAULTS.drag

\* ------------------------------------------------------------------------
\* C26: the initial snowflakes
\* ------------------------------------------------------------------------

\* C26: the array generateInitialSnowflakes returns satisfies the boundary
\* invariants of the integrator before the first step: every snowflake is
\* within 0.95 * domeRadius of the dome centre and has y >= floorY.
C26_InitialInsideBounds ==
  (demo = "snowdome" /\ frames = 0) =>
    \A i \in DOMAIN snowflakes :
      /\ DomeDist(snowflakes[i].position, simParams) <= MaxRadius(simParams)
      /\ snowflakes[i].position[2] >= simParams.floorY

\* ------------------------------------------------------------------------
\* C27: one animation loop
\* ------------------------------------------------------------------------

\* C27: whatever the interleaving of init(), restart(), UI events and
\* animation-frame callbacks, ParticleSimulation has at most one
\* animation-frame callback pending: none before init() has run, exactly
\* one, the one this.animationId names, once it has.  The loop is never
\* duplicated.
C27_OneCallbackPending ==
  demo = "tuner" =>
    /\ Cardinality(rafQueue) <= 1
    /\ simulation = "null" => rafQueue = {}
    /\ simulation = "sim" => rafQueue = {animationId}

\* C27 witness: a callback has run, then the particle count was changed and
\* the simulation restarted: one callback is pending, the one the restart
\* requested.
C27_Witness ==
  /\ demo = "tuner" /\ simulation = "sim"
  /\ frames = MaxFrames /\ now > 0 /\ lastTime = now
  /\ currentParticleCount # DEFAULTS.particleCount
  /\ rafQueue = {MaxFrames}

\* ------------------------------------------------------------------------
\* C28: respawn liveness
\* ------------------------------------------------------------------------

\* The respawn draw of the latest frame selects the snowflake watched.
SelectedNow ==
  /\ frames > 0
  /\ \E i \in DOMAIN snowflakes : RespawnSelected(i, simParams)

\* C28: for every sequence of frames with deltaTime in (0, 0.1] and every
\* index, a snowflake that stays settled on the floor is selected by the
\* respawn draw of some frame: frac(index * 0.0001 + time * 10) < 0.05.
C28_SettledEventuallySelected == (demo = "settled") => <>SelectedNow

\* ------------------------------------------------------------------------
\* C29: reset liveness on the particle pages
\* ------------------------------------------------------------------------

\* C29: with lifeDecay > 0 and every deltaTime positive and bounded away
\* from 0, the life of every particle reaches a value <= 0 again and again
\* and is reset to 1.0 again and again; a step that changes the life of a
\* particle resets it to 1.0 when the life was <= 0 and makes it strictly
\* smaller otherwise.
C29_ResetRecurs ==
  /\ []<>(\A i \in DOMAIN particles : particles[i].life <= 0)
  /\ []<>(\A i \in DOMAIN particles : particles[i].life = Scale)
  /\ [][\A i \in DOMAIN particles :
          IF particles[i].life <= 0
          THEN particles'[i].life \in {particles[i].life, Scale}
          ELSE particles'[i].life <= particles[i].life]_vars
  /\ [][\A idx \in pending :
          (pending' = pending \ {idx} /\ idx \in DOMAIN particles)
             => particles'[idx].life # particles[idx].life]_vars

\* C29 witness: a particle that started alive has lost life step by step
\* until its life was below 0, and the step after has reset it.
C29_Witness ==
  /\ pending = {}
  /\ \E i \in DOMAIN particles :
       /\ frameStart[i].life < 0 - 100
       /\ (1000 - frameStart[i].life) % 50 = 0
       /\ particles[i].life = Scale

\* ------------------------------------------------------------------------
\* C30: the range of a particle's life
\* ------------------------------------------------------------------------

\* C30: on the particle pages the life of every particle lies in [0, 1]
\* after every step, so the alpha of the rendered particle (life) and its
\* colour parameter (1 - life) lie in [0, 1] as well.
C30_LifeInUnitRange ==
  \A i \in DOMAIN particles :
    (demo \in {"particles", "tuner"} /\ Done(i)) =>
      /\ 0 <= particles[i].life /\ particles[i].life <= Scale
      /\ 0 <= Scale - particles[i].life /\ Scale - particles[i].life <= Scale

====
